---- MODULE Spec2Model ----
(***************************************************************************)
(* Statistics engine of the optihome dashboard                             *)
(* (frontend/src/components/Statistics.tsx).                               *)
(*                                                                         *)
(* JavaScript numbers are modelled as exact rationals n/d in lowest terms, *)
(* plus NaN and null.  IEEE-754 rounding of the double arithmetic is not   *)
(* modelled: every quotient and product is exact.                          *)
(***************************************************************************)
EXTENDS Integers, Sequences, FiniteSets, TLC

VARIABLES
    properties,     \* harness: the Property[] handed to calculateStats
    call,           \* harness: the arguments of the calculateStats call made
    statsValues,    \* harness: calculateStats' local `values` (the cleaned series)
    result,         \* harness: the ParameterStats that call returned
    repeated,       \* harness: the call was made a second time with the same arguments
    stats,          \* Statistics: the five memoized ParameterStats, by filterKey
    selectedBin,    \* Statistics: useState selectedBin
    filteredProperties, \* Statistics: useState filteredProperties
    onApplyFilter,  \* Statistics: whether the optional onApplyFilter prop is given
    timers,         \* Statistics: pending setTimeout callbacks of handleBinClick
    scrolled,       \* Statistics: this step called scrollIntoView
    applied,        \* Statistics: the onApplyFilter call this step made, if any
    chartStats,     \* HistogramChart: the stats prop
    chartRendered,  \* HistogramChart: the component body has run
    meanBin,        \* HistogramChart: index of the bin meanBin refers to, 0 for null
    medianBin,      \* HistogramChart: index of the bin medianBin refers to, 0 for null
    avgArea,        \* Statistics: the local avgArea of the Apply to Map handler this step ran
    listRef,        \* Statistics: identity of the array in the properties prop
    memoRef,        \* Statistics: the [properties] dependency the useMemo blocks hold
    recomputed,     \* Statistics: this step's render ran the useMemo callbacks
    thrown,         \* environment: the filterKeys whose calculateStats call throws
    errorLog,       \* Statistics: the filterKeys whose catch block called console.error
    filters,        \* App: useState filters
    bbox,           \* App: useState bbox
    activeTab,      \* App: useState activeTab
    propertiesFrom, \* App: the response the properties state was last set from
    paretoIdsFrom,  \* App: the response the paretoIds state was last set from
    inflight,       \* App: the fetchProperties and fetchPareto requests not yet settled
    fetches,        \* App: how many times the [params] effect has run
    locationCoords, \* App: useState locationCoords
    geocodeTimeoutRef, \* App: the timer id geocodeTimeoutRef.current holds, 0 for null
    geoTimers,      \* App: the pending setTimeout callbacks of the geocoding effect
    geoInflight     \* App: the geocodeLocation requests not yet settled

harnessVars == <<call, statsValues, result, repeated>>
uiVars == <<stats, selectedBin, filteredProperties, onApplyFilter, timers, scrolled,
            applied, avgArea, listRef, memoRef, recomputed, thrown, errorLog>>
chartVars == <<chartStats, chartRendered, meanBin, medianBin>>
appVars == <<filters, bbox, activeTab, propertiesFrom, paretoIdsFrom, inflight, fetches,
             locationCoords, geocodeTimeoutRef, geoTimers, geoInflight>>
vars == <<properties, harnessVars, uiVars, chartVars, appVars>>

----------------------------------------------------------------------------
(* JavaScript number values *)

Abs(i) == IF i < 0 THEN -i ELSE i

RECURSIVE GCD(_, _)
GCD(a, b) == IF b = 0 THEN a ELSE GCD(b, a % b)

\* the rational n/d (d > 0) in lowest terms: equal numbers are equal records
Rat(n, d) ==
    LET g == GCD(Abs(n), d)
    IN  [k |-> "num", n |-> n \div g, d |-> d \div g]

Num(i) == Rat(i, 1)
Zero == Num(0)
NaN == [k |-> "nan", n |-> 0, d |-> 1]
Null == [k |-> "null", n |-> 0, d |-> 1]

IsNum(x) == x.k = "num"

\* ToNumber: null converts to 0 in arithmetic and comparisons
ToNumber(x) == IF x.k = "null" THEN Zero ELSE x

\* the global isNaN(v): isNaN(null) is false
IsNaN(x) == ToNumber(x).k = "nan"

Add(x, y) ==
    LET a == ToNumber(x)
        b == ToNumber(y)
    IN  IF IsNum(a) /\ IsNum(b) THEN Rat(a.n * b.d + b.n * a.d, a.d * b.d) ELSE NaN

Sub(x, y) ==
    LET a == ToNumber(x)
        b == ToNumber(y)
    IN  IF IsNum(a) /\ IsNum(b) THEN Rat(a.n * b.d - b.n * a.d, a.d * b.d) ELSE NaN

Mul(x, y) ==
    LET a == ToNumber(x)
        b == ToNumber(y)
    IN  IF IsNum(a) /\ IsNum(b) THEN Rat(a.n * b.n, a.d * b.d) ELSE NaN

\* x / y.  0/0 is NaN.  A non-zero dividend over zero (Infinity) has no case
\* here: no call site produces it (the only divisor that can be zero is
\* binWidth, and then every dividend value - min is zero as well).
Div(x, y) ==
    LET a == ToNumber(x)
        b == ToNumber(y)
    IN  CASE ~(IsNum(a) /\ IsNum(b)) -> NaN
          [] IsNum(a) /\ IsNum(b) /\ b.n = 0 /\ a.n = 0 -> NaN
          [] IsNum(a) /\ IsNum(b) /\ b.n > 0 -> Rat(a.n * b.d, a.d * b.n)
          [] IsNum(a) /\ IsNum(b) /\ b.n < 0 -> Rat(-(a.n * b.d), a.d * (-b.n))

\* comparisons: false as soon as one side is NaN
Lt(x, y) ==
    LET a == ToNumber(x)
        b == ToNumber(y)
    IN  IsNum(a) /\ IsNum(b) /\ a.n * b.d < b.n * a.d

Le(x, y) ==
    LET a == ToNumber(x)
        b == ToNumber(y)
    IN  IsNum(a) /\ IsNum(b) /\ a.n * b.d <= b.n * a.d

Gt(x, y) == Lt(y, x)
Ge(x, y) == Le(y, x)

\* Math.floor, Math.ceil, Math.round (half rounds up), Number.isInteger
Floor(x) == LET a == ToNumber(x) IN IF IsNum(a) THEN Num(a.n \div a.d) ELSE NaN
Ceil(x) == LET a == ToNumber(x) IN IF IsNum(a) THEN Num(-((-a.n) \div a.d)) ELSE NaN
Round(x) == Floor(Add(x, Rat(1, 2)))
IsInteger(x) == IsNum(x) /\ x.d = 1

\* `${n}` of a number
NumStr(x) ==
    IF IsNum(x)
    THEN IF x.d = 1 THEN ToString(x.n) ELSE ToString(x.n) \o "/" \o ToString(x.d)
    ELSE "NaN"

----------------------------------------------------------------------------
(* Property records and the five accessors of Statistics *)

Accessors == {"price_eur", "area_m2", "rooms", "year_built", "price_per_m2"}

\* getValue(p) for the accessor p => p.<field>
GetValue(p, getValue) == p[getValue]

\* properties.map(getValue)
MapGetValue(props, getValue) == [i \in 1..Len(props) |-> GetValue(props[i], getValue)]

----------------------------------------------------------------------------
(* calculateHistogram *)

\* mutant: the positivity test weakened to v >= 0
IsValid_AllowZero(v) == v.k # "null" /\ ~IsNaN(v) /\ Ge(v, Zero)

\* v => v != null && !isNaN(v) && v > 0
IsValid(v) == v.k # "null" /\ ~IsNaN(v) /\ Gt(v, Zero)

FilterValid(values) == SelectSeq(values, IsValid)

SeqRange(s) == {s[i] : i \in 1..Len(s)}

\* Math.min(...filtered), Math.max(...filtered) of a non-empty list of numbers
MathMin(filtered) == CHOOSE m \in SeqRange(filtered) : \A x \in SeqRange(filtered) : Le(m, x)
MathMax(filtered) == CHOOSE m \in SeqRange(filtered) : \A x \in SeqRange(filtered) : Ge(m, x)

\* mutant: the price format is the plain one
FormatBinLabel_NoThousands(start, end, isPrice) ==
    NumStr(Round(start)) \o "-" \o NumStr(Round(end))

FormatBinLabel(start, end, isPrice) ==
    IF isPrice
    THEN NumStr(Round(Div(start, Num(1000)))) \o "k-" \o NumStr(Round(Div(end, Num(1000)))) \o "k"
    ELSE NumStr(Round(start)) \o "-" \o NumStr(Round(end))

EmptyHistogram == [histogram |-> <<>>, min |-> Zero, max |-> Zero]

\* bins.get(i) || 0 on the Map from integer to count
MapGet(bins, i) == IF i \in DOMAIN bins THEN bins[i] ELSE 0

\* filtered.forEach(value => bins.set(Math.round(value), (bins.get(..) || 0) + 1)),
\* after the first k values
RECURSIVE DiscreteCounts(_, _)
DiscreteCounts(filtered, k) ==
    IF k = 0 THEN << >>
    ELSE LET bins == DiscreteCounts(filtered, k - 1)
             intValue == Round(filtered[k]).n
         IN  [i \in (DOMAIN bins) \cup {intValue} |->
                 IF i = intValue THEN MapGet(bins, i) + 1 ELSE bins[i]]

\* mutant: only the integers that were observed get a bin
DiscreteHistogram_OnlyObserved(filtered, min, max) ==
    LET bins == DiscreteCounts(filtered, Len(filtered))
        lo == Floor(min).n
        hi == Ceil(max).n
        all == [j \in 1..(hi - lo + 1) |->
                   [bin |-> ToString(lo + j - 1),
                    binStart |-> Num(lo + j - 1),
                    binEnd |-> Num(lo + j),
                    count |-> MapGet(bins, lo + j - 1)]]
    IN  SelectSeq(all, LAMBDA b : b.count > 0)

\* for (let i = Math.floor(min); i <= Math.ceil(max); i++) histogram.push(...)
DiscreteHistogram(filtered, min, max) ==
    LET bins == DiscreteCounts(filtered, Len(filtered))
        lo == Floor(min).n
        hi == Ceil(max).n
    IN  [j \in 1..(hi - lo + 1) |->
            [bin |-> ToString(lo + j - 1),
             binStart |-> Num(lo + j - 1),
             binEnd |-> Num(lo + j),
             count |-> MapGet(bins, lo + j - 1)]]

BinWidth(min, max, numBins) == Div(Sub(max, min), Num(numBins))

\* let binIndex = Math.floor((value - min) / binWidth)
\* if (binIndex >= numBins) binIndex = numBins - 1
BinIndex(value, min, binWidth, numBins) ==
    LET binIndex == Floor(Div(Sub(value, min), binWidth))
    IN  IF Ge(binIndex, Num(numBins)) THEN Num(numBins - 1) ELSE binIndex

\* bins[binIndex]++ on the array of length numBins: an index that is no
\* array index (NaN) sets a property and leaves every element as it is
Increment(bins, binIndex) ==
    IF IsNum(binIndex) /\ binIndex.d = 1 /\ binIndex.n \in DOMAIN bins
    THEN [bins EXCEPT ![binIndex.n] = @ + 1]
    ELSE bins

\* new Array(numBins).fill(0), then the forEach over the first k values
RECURSIVE ContinuousCounts(_, _, _, _, _)
ContinuousCounts(filtered, k, min, binWidth, numBins) ==
    IF k = 0 THEN [i \in 0..(numBins - 1) |-> 0]
    ELSE Increment(ContinuousCounts(filtered, k - 1, min, binWidth, numBins),
                   BinIndex(filtered[k], min, binWidth, numBins))

BinStart(min, i, binWidth) == Add(min, Mul(Num(i), binWidth))
\* mutant: the upper edge taken one bin too far
BinEnd_OffByOne(min, i, binWidth) == Add(min, Mul(Num(i + 2), binWidth))

BinEnd(min, i, binWidth) == Add(min, Mul(Num(i + 1), binWidth))

\* bins.map((count, i) => ({bin, binStart, binEnd, count}))
ContinuousHistogram(filtered, min, max, numBins, isPrice) ==
    LET binWidth == BinWidth(min, max, numBins)
        bins == ContinuousCounts(filtered, Len(filtered), min, binWidth, numBins)
    IN  [j \in 1..numBins |->
            [bin |-> FormatBinLabel(BinStart(min, j - 1, binWidth),
                                    BinEnd(min, j - 1, binWidth), isPrice),
             binStart |-> BinStart(min, j - 1, binWidth),
             binEnd |-> BinEnd(min, j - 1, binWidth),
             count |-> bins[j - 1]]]

\* discrete && Number.isInteger(min) && Number.isInteger(max)
UseDiscrete(discrete, min, max) == discrete /\ IsInteger(min) /\ IsInteger(max)

CalculateHistogram(values, numBins, discrete, isPrice) ==
    IF Len(values) = 0 THEN EmptyHistogram
    ELSE LET filtered == FilterValid(values)
         IN  IF Len(filtered) = 0 THEN EmptyHistogram
             ELSE LET min == MathMin(filtered)
                      max == MathMax(filtered)
                  IN  IF UseDiscrete(discrete, min, max)
                      THEN [histogram |-> DiscreteHistogram(filtered, min, max),
                            min |-> min, max |-> max]
                      ELSE [histogram |->
                                ContinuousHistogram(filtered, min, max, numBins, isPrice),
                            min |-> min, max |-> max]

----------------------------------------------------------------------------
(* calculateMean, calculateMedian, calculateStats *)

\* filtered.reduce((a, b) => a + b, 0)
RECURSIVE SumSeq(_, _)
SumSeq(s, k) == IF k = 0 THEN Zero ELSE Add(SumSeq(s, k - 1), s[k])

\* mutant: the empty-series guard dropped
CalculateMean_NoEmptyGuard(values) ==
    LET filtered == FilterValid(values)
    IN  Div(SumSeq(filtered, Len(filtered)), Num(Len(filtered)))

\* mutant: the sum of the usable values is divided by the count of all values
CalculateMean_DivideByAll(values) ==
    LET filtered == FilterValid(values)
    IN  IF Len(filtered) = 0 THEN Zero
        ELSE Div(SumSeq(filtered, Len(filtered)), Num(Len(values)))

CalculateMean(values) ==
    LET filtered == FilterValid(values)
    IN  IF Len(filtered) = 0 THEN Zero
        ELSE Div(SumSeq(filtered, Len(filtered)), Num(Len(filtered)))

\* mutant: the series is left in input order
SortAscending_InputOrder(s) == s

\* .sort((a, b) => a - b)
SortAscending(s) == SortSeq(s, Lt)

CalculateMedian(values) ==
    LET filtered == SortAscending(FilterValid(values))
        mid == Len(filtered) \div 2
    IN  IF Len(filtered) = 0 THEN Zero
        ELSE IF Len(filtered) % 2 = 0
             THEN Div(Add(filtered[mid], filtered[mid + 1]), Num(2))
             ELSE filtered[mid + 1]

\* mutant: calculateMedian sorts the array it was given
ArrayAfterMedian_SortsArgument(values) == SortAscending(values)

\* the array `values` as calculateMedian leaves it: values.filter(...) is a
\* new array and .sort() orders that one
ArrayAfterMedian(values) == values

\* the numBins argument calculateStats passes
NumBins == 15

\* properties.map(getValue).filter(v => v != null && !isNaN(v) && v > 0)
CleanedValues(props, getValue) == FilterValid(MapGetValue(props, getValue))

CalculateStats(props, getValue, discrete, isPrice) ==
    LET values == CleanedValues(props, getValue)
        h == CalculateHistogram(values, NumBins, discrete, isPrice)
    IN  [mean |-> CalculateMean(values),
         median |-> CalculateMedian(values),
         histogram |-> h.histogram,
         min |-> h.min,
         max |-> h.max]

----------------------------------------------------------------------------
(* HistogramChart / AreaDistributionChart: locating the mean and median bins *)

\* stats.mean >= h.binStart && stats.mean < h.binEnd
Contains(h, v) == Ge(v, h.binStart) /\ Lt(v, h.binEnd)

\* histogram.find(...): the index of the first bin the callback accepts,
\* 0 for undefined
Find(histogram, v) ==
    IF \E i \in 1..Len(histogram) : Contains(histogram[i], v)
    THEN CHOOSE i \in 1..Len(histogram) :
             /\ Contains(histogram[i], v)
             /\ \A j \in 1..(i - 1) : ~Contains(histogram[j], v)
    ELSE 0

\* mutant: no fallback when find returns undefined
LocateBin_NoFallback(histogram, v) ==
    IF Len(histogram) > 0 THEN Find(histogram, v) ELSE 0

\* mutant: the fallback always takes the last bin
LocateBin_FallbackLast(histogram, v) ==
    IF Len(histogram) > 0
    THEN IF Find(histogram, v) # 0 THEN Find(histogram, v) ELSE Len(histogram)
    ELSE 0

\* mutant: the last bin is the fallback only for v > last.binStart
LocateBin_StrictFallback(histogram, v) ==
    IF Len(histogram) > 0
    THEN IF Find(histogram, v) # 0 THEN Find(histogram, v)
         ELSE IF Gt(v, histogram[Len(histogram)].binStart) THEN Len(histogram)
              ELSE 1
    ELSE 0

\* histogram.length > 0
\*   ? (histogram.find(...) || (v >= last.binStart ? last : histogram[0]))
\*   : null
LocateBin(histogram, v) ==
    IF Len(histogram) > 0
    THEN IF Find(histogram, v) # 0 THEN Find(histogram, v)
         ELSE IF Ge(v, histogram[Len(histogram)].binStart) THEN Len(histogram)
              ELSE 1
    ELSE 0

----------------------------------------------------------------------------
(* The inputs: property lists over a pool of records *)

MaxProps == 3

Prop(id, price, area, rooms, year, ppm2) ==
    [id |-> id, price_eur |-> price, area_m2 |-> area, rooms |-> rooms,
     year_built |-> year, price_per_m2 |-> ppm2]

PropertyPool ==
    { Prop(1, Num(100000), Num(50),      Num(1),    Num(1990), Num(2000)),
      Prop(2, Num(150000), Num(60),      Num(3),    Null,      Num(2500)),
      Prop(3, Num(210000), Rat(105, 2),  Num(2),    Num(2005), Num(4000)),
      Prop(4, Num(150000), Num(0),       Rat(5, 2), Num(1990), Num(3000)),
      Prop(5, Null,        Null,         Null,      Null,      Null),
      Prop(6, Num(0),      NaN,          Num(0),    Num(0),    NaN),
      Prop(7, Num(-1),     Num(-10),     Num(-1),   Num(2021), Rat(5001, 2)),
      Prop(8, NaN,         Num(50),      NaN,       Num(-1),   Num(-3)) }

\* every list of at most n records of the pool
ListsUpTo(pool, n) == UNION {[1..k -> pool] : k \in 0..n}

----------------------------------------------------------------------------
(* Harness of calculateStats: any list, each of the five calls Statistics makes *)

\* the five useMemo calls of Statistics and the chart each result is drawn by
StatsCalls ==
    { [filterKey |-> "price",        getValue |-> "price_eur",    discrete |-> FALSE, isPrice |-> TRUE],
      [filterKey |-> "area",         getValue |-> "area_m2",      discrete |-> FALSE, isPrice |-> FALSE],
      [filterKey |-> "rooms",        getValue |-> "rooms",        discrete |-> TRUE,  isPrice |-> FALSE],
      [filterKey |-> "year",         getValue |-> "year_built",   discrete |-> FALSE, isPrice |-> FALSE],
      [filterKey |-> "price_per_m2", getValue |-> "price_per_m2", discrete |-> FALSE, isPrice |-> FALSE] }

NoCall == [filterKey |-> "none", getValue |-> "none", discrete |-> FALSE, isPrice |-> FALSE]

\* the ParameterStats every catch block of Statistics falls back to, and the
\* value of the Statistics state before anything was selected
DefaultStats == [mean |-> Zero, median |-> Zero, histogram |-> << >>,
                 min |-> Zero, max |-> Zero]
NoSelection == [filterKey |-> "null"]
NoApply == [called |-> FALSE]
Unset == [k |-> "unset", n |-> 0, d |-> 1]

FilterKeys == {c.filterKey : c \in StatsCalls}

----------------------------------------------------------------------------
(* App (frontend/src/App.tsx): values of its state *)

\* a Filters value: a string (its characters), or undefined
Str(s) == [k |-> "str", n |-> s, d |-> 1]
Undefined == [k |-> "undefined", n |-> << >>, d |-> 1]

\* the object {}
EmptyFilters == [key \in {} |-> Undefined]

\* null, as the value of the bbox state
NoBbox == << >>

\* null, as the value of the locationCoords state
NoCoords == [k |-> "null", query |-> << >>]

\* the state a list state holds before any response: [] and new Set()
NoResponse == [k |-> "initial", params |-> EmptyFilters]

\* App is not mounted
AppIdle ==
    /\ filters = EmptyFilters
    /\ bbox = NoBbox
    /\ activeTab = "map"
    /\ propertiesFrom = NoResponse
    /\ paretoIdsFrom = NoResponse
    /\ inflight = {}
    /\ fetches = 0
    /\ locationCoords = NoCoords
    /\ geocodeTimeoutRef = 0
    /\ geoTimers = {}
    /\ geoInflight = {}

\* the Statistics component is not mounted
UiIdle ==
    /\ stats = [f \in FilterKeys |-> DefaultStats]
    /\ selectedBin = NoSelection
    /\ filteredProperties = << >>
    /\ onApplyFilter = FALSE
    /\ timers = 0
    /\ scrolled = FALSE
    /\ applied = NoApply
    /\ avgArea = Unset
    /\ listRef = 0
    /\ memoRef = 0
    /\ recomputed = FALSE
    /\ thrown = {}
    /\ errorLog = {}

\* no chart is mounted
ChartIdle ==
    /\ chartStats = DefaultStats
    /\ chartRendered = FALSE
    /\ meanBin = 0
    /\ medianBin = 0

Init ==
    /\ AppIdle
    /\ properties \in ListsUpTo(PropertyPool, MaxProps)
    /\ call = NoCall
    /\ statsValues = << >>
    /\ result = DefaultStats
    /\ repeated = FALSE
    /\ UiIdle
    /\ ChartIdle

\* one calculateStats(properties, getValue, discrete, isPrice) call
CallCalculateStats(c) ==
    /\ call = NoCall
    /\ call' = c
    /\ statsValues' = ArrayAfterMedian(CleanedValues(properties, c.getValue))
    /\ result' = CalculateStats(properties, c.getValue, c.discrete, c.isPrice)
    /\ UNCHANGED <<appVars, properties, repeated, uiVars, chartVars>>

\* the chart of the call made is drawn from its result: <HistogramChart
\* stats={...}> (<AreaDistributionChart stats={...}>) and the chart's body
RenderStatsChart ==
    /\ call # NoCall
    /\ ~chartRendered
    /\ chartStats' = result
    /\ chartRendered' = TRUE
    /\ meanBin' = LocateBin(result.histogram, result.mean)
    /\ medianBin' = LocateBin(result.histogram, result.median)
    /\ UNCHANGED <<appVars, properties, harnessVars, uiVars>>

Next ==
    \/ \E c \in StatsCalls : CallCalculateStats(c)
    \/ RenderStatsChart

Spec == Init /\ [][Next]_vars

----------------------------------------------------------------------------
(* The Statistics component: bin click, Clear Filter, Apply to Map *)

MaxUiProps == 2
MaxTimers == 1

UiPool == {p \in PropertyPool : p.id \in {1, 2, 4}}

\* records with a room count and nothing else, for longer lists
MaxSparseProps == 3
SparsePool ==
    { Prop(11, Null, Null, Num(1),    Null, Null),
      Prop(12, Null, Null, Rat(5, 2), Null, Null),
      Prop(13, Null, Null, Num(3),    Null, Null) }

UiLists == ListsUpTo(UiPool, MaxUiProps) \cup ListsUpTo(SparsePool, MaxSparseProps)

\* mutant: one try block around the five calls
MemoStats_OneTryBlock(props) ==
    [f \in FilterKeys |->
        LET c == CHOOSE x \in StatsCalls : x.filterKey = f
        IN  IF thrown # {} THEN DefaultStats
            ELSE CalculateStats(props, c.getValue, c.discrete, c.isPrice)]

\* the callbacks of the five useMemo blocks: try { return calculateStats(...) }
\* catch (e) { console.error(...); return { mean: 0, ... } }.  Whether a call
\* throws is the environment's choice (`thrown`): the code itself throws on
\* no list of Property records, an engine may (Math.min(...values) over a
\* series longer than its argument limit)
MemoStats(props) ==
    [f \in FilterKeys |->
        LET c == CHOOSE x \in StatsCalls : x.filterKey = f
        IN  IF f \in thrown THEN DefaultStats
            ELSE CalculateStats(props, c.getValue, c.discrete, c.isPrice)]

\* the state after the first render
InitUi ==
    /\ AppIdle
    /\ properties \in UiLists
    /\ thrown = {}
    /\ call = NoCall
    /\ statsValues = << >>
    /\ result = DefaultStats
    /\ repeated = FALSE
    /\ stats = MemoStats(properties)
    /\ selectedBin = NoSelection
    /\ filteredProperties = << >>
    /\ onApplyFilter \in BOOLEAN
    /\ timers = 0
    /\ scrolled = FALSE
    /\ applied = NoApply
    /\ avgArea = Unset
    /\ listRef = 0
    /\ memoRef = 0
    /\ recomputed = FALSE
    /\ errorLog = {}
    /\ ChartIdle

\* mutant: the memo callbacks run on every render
UseMemoStats_EveryRender(ref, props) ==
    /\ stats' = MemoStats(props)
    /\ memoRef' = ref
    /\ recomputed' = TRUE
    /\ errorLog' = errorLog \cup thrown

\* the five useMemo(..., [properties]) blocks on a render whose properties
\* prop is the array `ref` with the elements `props`
UseMemoStats(ref, props) ==
    /\ stats' = IF ref # memoRef THEN MemoStats(props) ELSE stats
    /\ memoRef' = ref
    /\ recomputed' = (ref # memoRef)
    /\ errorLog' = IF ref # memoRef THEN errorLog \cup thrown ELSE errorLog

\* the charts are on screen: Statistics did not take the empty-list return
ChartsRendered == Len(properties) > 0

\* the results panel (filteredSectionRef) is on screen
PanelRendered == ChartsRendered /\ selectedBin # NoSelection

\* the predicate of properties.filter in handleBinClick
InBin(p, getValue, bin) ==
    LET value == GetValue(p, getValue)
    IN  IF value.k = "null" \/ IsNaN(value) \/ Le(value, Zero) THEN FALSE
        ELSE Ge(value, bin.binStart) /\ Lt(value, bin.binEnd)

BinClickFilter(props, getValue, bin) ==
    SelectSeq(props, LAMBDA p : InBin(p, getValue, bin))

\* mutant: the click itself calls onApplyFilter when the prop is given
HandleBinClick_AppliesAtOnce(c, index) ==
    /\ ChartsRendered
    /\ index \in 1..Len(stats[c.filterKey].histogram)
    /\ timers < MaxTimers
    /\ LET bin == stats[c.filterKey].histogram[index]
       IN  /\ selectedBin' = [bin |-> bin, getValue |-> c.getValue,
                              filterKey |-> c.filterKey]
           /\ filteredProperties' = BinClickFilter(properties, c.getValue, bin)
    /\ timers' = timers + 1
    /\ scrolled' = FALSE
    /\ applied' = [called |-> onApplyFilter, filters |-> << >>]
    /\ avgArea' = Unset
    /\ UseMemoStats(listRef, properties)
    /\ UNCHANGED <<appVars, properties, listRef, harnessVars, chartVars, onApplyFilter, thrown>>

\* a click on bar `index` of the chart of call c: Bar.onClick, then handleBinClick
HandleBinClick(c, index) ==
    /\ ChartsRendered
    /\ index \in 1..Len(stats[c.filterKey].histogram)
    /\ timers < MaxTimers
    /\ LET bin == stats[c.filterKey].histogram[index]
       IN  /\ selectedBin' = [bin |-> bin, getValue |-> c.getValue,
                              filterKey |-> c.filterKey]
           /\ filteredProperties' = BinClickFilter(properties, c.getValue, bin)
    /\ timers' = timers + 1
    /\ scrolled' = FALSE
    /\ applied' = NoApply
    /\ avgArea' = Unset
    /\ UseMemoStats(listRef, properties)
    /\ UNCHANGED <<appVars, properties, listRef, harnessVars, chartVars, onApplyFilter, thrown>>

\* mutant: the callback scrolls without looking at filteredSectionRef.current
ScrollTimer_NoRefCheck ==
    /\ timers > 0
    /\ timers' = timers - 1
    /\ scrolled' = TRUE
    /\ applied' = NoApply
    /\ avgArea' = Unset
    /\ recomputed' = FALSE
    /\ UNCHANGED <<appVars, properties, listRef, memoRef, errorLog, harnessVars, chartVars, stats, selectedBin,
                   filteredProperties, onApplyFilter, thrown>>

\* the setTimeout callback of handleBinClick
ScrollTimer ==
    /\ timers > 0
    /\ timers' = timers - 1
    /\ scrolled' = PanelRendered
    /\ applied' = NoApply
    /\ avgArea' = Unset
    /\ recomputed' = FALSE
    /\ UNCHANGED <<appVars, properties, listRef, memoRef, errorLog, harnessVars, chartVars, stats, selectedBin,
                   filteredProperties, onApplyFilter, thrown>>

\* mutant: Clear Filter forgets the filtered subset
ClearFilter_KeepSubset ==
    /\ PanelRendered
    /\ selectedBin' = NoSelection
    /\ scrolled' = FALSE
    /\ applied' = NoApply
    /\ avgArea' = Unset
    /\ UseMemoStats(listRef, properties)
    /\ UNCHANGED <<appVars, properties, listRef, harnessVars, chartVars, onApplyFilter, thrown, timers,
                   filteredProperties>>

\* the Clear Filter button
ClearFilter ==
    /\ PanelRendered
    /\ selectedBin' = NoSelection
    /\ filteredProperties' = << >>
    /\ scrolled' = FALSE
    /\ applied' = NoApply
    /\ avgArea' = Unset
    /\ UseMemoStats(listRef, properties)
    /\ UNCHANGED <<appVars, properties, listRef, harnessVars, chartVars, onApplyFilter, thrown, timers>>

\* properties.reduce((sum, p) => sum + (p.area_m2 || 0), 0) / properties.length
RECURSIVE AreaSum(_, _)
AreaSum(props, k) ==
    IF k = 0 THEN Zero
    ELSE LET a == props[k].area_m2
             term == IF a.k = "null" \/ a.k = "nan" \/ a = Zero THEN Zero ELSE a
         IN  Add(AreaSum(props, k - 1), term)

\* mutant: the average is taken over the members of the selected bin
AvgArea_OverBinMembers(props) ==
    Div(AreaSum(filteredProperties, Len(filteredProperties)), Num(Len(filteredProperties)))

AvgArea(props) == Div(AreaSum(props, Len(props)), Num(Len(props)))

\* mutant: Math.round for both bounds of a directly stored attribute
NewFilters_RoundBoth(sel, props) ==
    LET lo == Round(sel.bin.binStart)
        hi == Round(sel.bin.binEnd)
    IN  CASE sel.filterKey = "price" -> [min_price |-> lo, max_price |-> hi]
          [] sel.filterKey = "area" -> [min_area |-> lo, max_area |-> hi]
          [] sel.filterKey = "rooms" -> [min_rooms |-> lo, max_rooms |-> hi]
          [] sel.filterKey = "year" -> [min_year |-> lo, max_year |-> hi]
          [] sel.filterKey = "price_per_m2" ->
                IF Gt(AvgArea(props), Zero)
                THEN [min_price |-> Floor(Mul(Mul(sel.bin.binStart, AvgArea(props)), Rat(4, 5))),
                      max_price |-> Ceil(Mul(Mul(sel.bin.binEnd, AvgArea(props)), Rat(6, 5)))]
                ELSE << >>

\* mutant: the price range is built whatever the average area is
NewFilters_NoAreaGuard(sel, props) ==
    LET lo == Floor(sel.bin.binStart)
        hi == Ceil(sel.bin.binEnd)
    IN  CASE sel.filterKey = "price" -> [min_price |-> lo, max_price |-> hi]
          [] sel.filterKey = "area" -> [min_area |-> lo, max_area |-> hi]
          [] sel.filterKey = "rooms" -> [min_rooms |-> lo, max_rooms |-> hi]
          [] sel.filterKey = "year" -> [min_year |-> lo, max_year |-> hi]
          [] sel.filterKey = "price_per_m2" ->
                [min_price |-> Floor(Mul(Mul(sel.bin.binStart, AvgArea(props)), Rat(4, 5))),
                 max_price |-> Ceil(Mul(Mul(sel.bin.binEnd, AvgArea(props)), Rat(6, 5)))]

\* newFilters of the Apply to Map handler
NewFilters(sel, props) ==
    LET lo == Floor(sel.bin.binStart)
        hi == Ceil(sel.bin.binEnd)
    IN  CASE sel.filterKey = "price" -> [min_price |-> lo, max_price |-> hi]
          [] sel.filterKey = "area" -> [min_area |-> lo, max_area |-> hi]
          [] sel.filterKey = "rooms" -> [min_rooms |-> lo, max_rooms |-> hi]
          [] sel.filterKey = "year" -> [min_year |-> lo, max_year |-> hi]
          [] sel.filterKey = "price_per_m2" ->
                IF Gt(AvgArea(props), Zero)
                THEN [min_price |-> Floor(Mul(Mul(sel.bin.binStart, AvgArea(props)), Rat(4, 5))),
                      max_price |-> Ceil(Mul(Mul(sel.bin.binEnd, AvgArea(props)), Rat(6, 5)))]
                ELSE << >>

\* the Apply to Map button (rendered only with an onApplyFilter prop)
ApplyToMap ==
    /\ PanelRendered
    /\ onApplyFilter
    /\ applied' = [called |-> TRUE, filters |-> NewFilters(selectedBin, properties)]
    /\ avgArea' = IF selectedBin.filterKey = "price_per_m2" THEN AvgArea(properties)
                  ELSE Unset
    /\ scrolled' = FALSE
    /\ recomputed' = FALSE
    /\ UNCHANGED <<appVars, properties, listRef, memoRef, errorLog, harnessVars, chartVars, stats, selectedBin,
                   filteredProperties, onApplyFilter, thrown, timers>>

NextUi ==
    \/ \E c \in StatsCalls, index \in 1..NumBins : HandleBinClick(c, index)
    \/ ScrollTimer
    \/ ClearFilter
    \/ ApplyToMap

SpecUi == InitUi /\ [][NextUi]_vars

----------------------------------------------------------------------------
(* Harness of calculateStats called twice with the same arguments *)

MaxRepeatProps == 2

InitRepeat ==
    /\ AppIdle
    /\ properties \in ListsUpTo(PropertyPool, MaxRepeatProps)
    /\ call = NoCall
    /\ statsValues = << >>
    /\ result = DefaultStats
    /\ repeated = FALSE
    /\ UiIdle
    /\ ChartIdle

\* calculateStats once more, with the list and the arguments of the first call
RepeatCalculateStats ==
    /\ call # NoCall
    /\ ~repeated
    /\ repeated' = TRUE
    /\ statsValues' = ArrayAfterMedian(CleanedValues(properties, call.getValue))
    /\ result' = CalculateStats(properties, call.getValue, call.discrete, call.isPrice)
    /\ UNCHANGED <<appVars, properties, call, uiVars, chartVars>>

NextRepeat ==
    \/ \E c \in StatsCalls : CallCalculateStats(c)
    \/ RepeatCalculateStats

SpecRepeat == InitRepeat /\ [][NextRepeat]_vars

----------------------------------------------------------------------------
(* The Statistics component under a parent that re-renders it and replaces *)
(* the property list                                                       *)

MaxListProps == 2
MaxReplacements == 1

\* the records of the lists that replace one another
ListPool == {p \in SparsePool : p.id \in {11, 13}}

InitList ==
    /\ AppIdle
    /\ properties \in ListsUpTo(ListPool, MaxListProps)
    /\ thrown = {}
    /\ call = NoCall
    /\ statsValues = << >>
    /\ result = DefaultStats
    /\ repeated = FALSE
    /\ stats = MemoStats(properties)
    /\ selectedBin = NoSelection
    /\ filteredProperties = << >>
    /\ onApplyFilter \in BOOLEAN
    /\ timers = 0
    /\ scrolled = FALSE
    /\ applied = NoApply
    /\ avgArea = Unset
    /\ listRef = 0
    /\ memoRef = 0
    /\ recomputed = FALSE
    /\ errorLog = {}
    /\ ChartIdle

\* the parent passes a new array (App: setProperties(res.items) or
\* setProperties([])); the useState values of Statistics are kept
SetProperties(items) ==
    /\ listRef < MaxReplacements
    /\ properties' = items
    /\ listRef' = listRef + 1
    /\ UseMemoStats(listRef + 1, items)
    /\ scrolled' = FALSE
    /\ applied' = NoApply
    /\ avgArea' = Unset
    /\ UNCHANGED <<appVars, harnessVars, chartVars, selectedBin, filteredProperties, onApplyFilter, thrown,
                   timers>>

\* the parent renders Statistics again with the same array
Rerender ==
    /\ UseMemoStats(listRef, properties)
    /\ scrolled' = FALSE
    /\ applied' = NoApply
    /\ avgArea' = Unset
    /\ UNCHANGED <<appVars, properties, listRef, harnessVars, chartVars, selectedBin,
                   filteredProperties, onApplyFilter, thrown, timers>>

NextList ==
    \/ \E c \in StatsCalls, index \in 1..NumBins : HandleBinClick(c, index)
    \/ ScrollTimer
    \/ ClearFilter
    \/ ApplyToMap
    \/ \E items \in ListsUpTo(ListPool, MaxListProps) : SetProperties(items)
    \/ Rerender

SpecList == InitList /\ [][NextList]_vars

----------------------------------------------------------------------------
(* The first render of Statistics when calculateStats calls throw *)

\* no array has been rendered yet
NoRef == -1

\* Statistics is about to be mounted; any of the five calls may throw
InitFault ==
    /\ AppIdle
    /\ properties \in UiLists
    /\ call = NoCall
    /\ statsValues = << >>
    /\ result = DefaultStats
    /\ repeated = FALSE
    /\ stats = [f \in FilterKeys |-> DefaultStats]
    /\ selectedBin = NoSelection
    /\ filteredProperties = << >>
    /\ onApplyFilter = FALSE
    /\ timers = 0
    /\ scrolled = FALSE
    /\ applied = NoApply
    /\ avgArea = Unset
    /\ listRef = 0
    /\ memoRef = NoRef
    /\ recomputed = FALSE
    /\ thrown \in SUBSET FilterKeys
    /\ errorLog = {}
    /\ ChartIdle

\* the first render: the useState initial values and the five useMemo blocks
MountStatistics ==
    /\ memoRef = NoRef
    /\ UseMemoStats(listRef, properties)
    /\ scrolled' = FALSE
    /\ applied' = NoApply
    /\ avgArea' = Unset
    /\ UNCHANGED <<appVars, properties, listRef, harnessVars, chartVars, selectedBin,
                   filteredProperties, onApplyFilter, thrown, timers>>

NextFault ==
    \/ MountStatistics
    \/ memoRef # NoRef /\ Rerender

SpecFault == InitFault /\ [][NextFault]_vars

----------------------------------------------------------------------------
(* Harness of the locator: sample histograms, means and medians *)

MaxChartBins == 2
MaxBinWidth == 1

\* the bins that start at 1 and have the given widths, one after the other
RECURSIVE EdgeAfter(_, _)
EdgeAfter(widths, k) == IF k = 0 THEN 1 ELSE EdgeAfter(widths, k - 1) + widths[k]

BinsOfWidths(widths) ==
    [j \in 1..Len(widths) |->
        [bin |-> FormatBinLabel(Num(EdgeAfter(widths, j - 1)), Num(EdgeAfter(widths, j)), FALSE),
         binStart |-> Num(EdgeAfter(widths, j - 1)),
         binEnd |-> Num(EdgeAfter(widths, j)),
         count |-> 0]]

ChartHistograms ==
    {BinsOfWidths(w) : w \in UNION {[1..k -> 0..MaxBinWidth] : k \in 0..MaxChartBins}}

\* the means and medians tried: NaN and the half-integers around the bins
ChartValues ==
    {NaN} \cup {Rat(n, 2) : n \in 0..(2 * (2 + MaxChartBins * MaxBinWidth))}

InitChart ==
    /\ AppIdle
    /\ properties = << >>
    /\ call = NoCall
    /\ statsValues = << >>
    /\ result = DefaultStats
    /\ repeated = FALSE
    /\ UiIdle
    /\ \E h \in ChartHistograms, mean \in ChartValues, median \in ChartValues :
           chartStats = [mean |-> mean, median |-> median, histogram |-> h,
                         min |-> Zero, max |-> Zero]
    /\ chartRendered = FALSE
    /\ meanBin = 0
    /\ medianBin = 0

\* the body of HistogramChart (and of AreaDistributionChart) up to its return
RenderChart ==
    /\ ~chartRendered
    /\ chartRendered' = TRUE
    /\ meanBin' = LocateBin(chartStats.histogram, chartStats.mean)
    /\ medianBin' = LocateBin(chartStats.histogram, chartStats.median)
    /\ UNCHANGED <<appVars, properties, harnessVars, uiVars, chartStats>>

NextChart == RenderChart

SpecChart == InitChart /\ [][NextChart]_vars

----------------------------------------------------------------------------
(* App (frontend/src/App.tsx): filters, the two fetches and the geocoding *)

MaxFetches == 3

\* String.prototype.trim on a sequence of characters
RECURSIVE TrimStart(_)
TrimStart(s) == IF s # << >> /\ Head(s) = " " THEN TrimStart(Tail(s)) ELSE s
RECURSIVE TrimEnd(_)
TrimEnd(s) ==
    IF s # << >> /\ s[Len(s)] = " " THEN TrimEnd(SubSeq(s, 1, Len(s) - 1)) ELSE s
Trim(s) == TrimEnd(TrimStart(s))

\* filters.location, undefined when the key is missing
LocationOf(f) == IF "location" \in DOMAIN f THEN f.location ELSE Undefined

\* filters.location && filters.location.trim().length > 0
HasLocation(f) ==
    /\ LocationOf(f).k = "str"
    /\ LocationOf(f).n # << >>
    /\ Len(Trim(LocationOf(f).n)) > 0

\* Filters' hasActiveFilters, which renders the clear-all button
HasActiveFilters(f) ==
    \E key \in DOMAIN f :
        /\ f[key].k # "undefined"
        /\ f[key].k = "str" => f[key].n # << >>

\* mutant: the delta replaces the filters
SpreadInto_DeltaOnly(prev, delta) ==
    [key \in DOMAIN delta |-> delta[key]]

\* { ...prev, ...delta }
SpreadInto(prev, delta) ==
    [key \in DOMAIN prev \cup DOMAIN delta |->
        IF key \in DOMAIN delta THEN delta[key] ELSE prev[key]]

\* bbox.join(',')
Join(b) == Str(<<b[1], ",", b[2], ",", b[3], ",", b[4]>>)

\* the params memo
Params(f, b) == IF b # NoBbox THEN SpreadInto(f, [bbox |-> Join(b)]) ELSE f

\* mutant: the timer the ref holds is left pending
ClearTimeout_LeavesPending(pending, ref) == pending

\* clearTimeout(geocodeTimeoutRef.current)
ClearTimeout(pending, ref) == {t \in pending : t.id # ref}

\* the values the location input and the price input are set to
LocationInputs == {Undefined, Str(<<" ">>), Str(<<"a">>), Str(<<"b", " ">>)}
PriceInputs == {Num(1)}
FilterInputs ==
    {<<"location", v>> : v \in LocationInputs} \cup {<<"min_price", v>> : v \in PriceInputs}

\* the inputs tried together with the fetch responses
FewFilterInputs == {<<"location", Str(<<"a">>)>>, <<"min_price", Num(1)>>}

\* the deltas Statistics hands to onApplyFilter
DeltaInputs ==
    {EmptyFilters, [min_price |-> Num(2), max_price |-> Num(3)]}

\* the bounds the map reports
BboxInputs == {<<0, 0, 1, 1>>}

Tabs == {"map", "statistics", "scraping"}

\* the effect on [params]: both requests are sent, nothing is cancelled
FetchEffect(f, b) ==
    /\ fetches' = fetches + 1
    /\ inflight' = inflight \cup
           {[id |-> fetches + 1, kind |-> kind, params |-> Params(f, b)] :
               kind \in {"properties", "pareto"}}

\* the effect on [filters.location], with the cleanup of its previous run;
\* coords is locationCoords as the handler left it
GeocodeEffect(f, coords) ==
    IF LocationOf(f) = LocationOf(filters)
    THEN /\ locationCoords' = coords
         /\ UNCHANGED <<geocodeTimeoutRef, geoTimers>>
    ELSE IF HasLocation(f)
         THEN /\ geoTimers' = ClearTimeout(geoTimers, geocodeTimeoutRef) \cup
                                  {[id |-> fetches + 1, location |-> LocationOf(f).n]}
              /\ geocodeTimeoutRef' = fetches + 1
              /\ locationCoords' = coords
         ELSE /\ geoTimers' = ClearTimeout(geoTimers, geocodeTimeoutRef)
              /\ locationCoords' = NoCoords
              /\ UNCHANGED geocodeTimeoutRef

\* App after its first render: the [params] effect has sent the first requests
InitApp ==
    /\ properties = << >>
    /\ call = NoCall
    /\ statsValues = << >>
    /\ result = DefaultStats
    /\ repeated = FALSE
    /\ UiIdle
    /\ ChartIdle
    /\ filters = EmptyFilters
    /\ bbox = NoBbox
    /\ activeTab = "map"
    /\ propertiesFrom = NoResponse
    /\ paretoIdsFrom = NoResponse
    /\ fetches = 1
    /\ inflight = {[id |-> 1, kind |-> kind, params |-> EmptyFilters] :
                      kind \in {"properties", "pareto"}}
    /\ locationCoords = NoCoords
    /\ geocodeTimeoutRef = 0
    /\ geoTimers = {}
    /\ geoInflight = {}

\* Filters' set(k, v): onChange = setFilters with { ...local, [k]: v }
SetFilters(key, v) ==
    /\ fetches < MaxFetches
    /\ \E next \in {SpreadInto(filters, [x \in {key} |-> v])} :
           /\ filters' = next
           /\ FetchEffect(next, bbox)
           /\ GeocodeEffect(next, locationCoords)
    /\ UNCHANGED <<bbox, activeTab, propertiesFrom, paretoIdsFrom, geoInflight>>
    /\ UNCHANGED <<properties, harnessVars, uiVars, chartVars>>

\* onBoundsChange, called by the map on the map tab
OnBoundsChange(b) ==
    /\ fetches < MaxFetches
    /\ activeTab = "map"
    /\ bbox' = b
    /\ FetchEffect(filters, b)
    /\ UNCHANGED <<filters, activeTab, propertiesFrom, paretoIdsFrom, locationCoords,
                   geocodeTimeoutRef, geoTimers, geoInflight>>
    /\ UNCHANGED <<properties, harnessVars, uiVars, chartVars>>

\* the onApplyFilter prop App gives Statistics on the statistics tab
OnApplyFilter(newFilters) ==
    /\ fetches < MaxFetches
    /\ activeTab = "statistics"
    /\ \E next \in {SpreadInto(filters, newFilters)} :
           /\ filters' = next
           /\ FetchEffect(next, bbox)
           /\ GeocodeEffect(next, locationCoords)
    /\ activeTab' = "map"
    /\ UNCHANGED <<bbox, propertiesFrom, paretoIdsFrom, geoInflight>>
    /\ UNCHANGED <<properties, harnessVars, uiVars, chartVars>>

\* a tab button
SetActiveTab(tab) ==
    /\ activeTab' = tab
    /\ UNCHANGED <<filters, bbox, propertiesFrom, paretoIdsFrom, inflight, fetches,
                   locationCoords, geocodeTimeoutRef, geoTimers, geoInflight>>
    /\ UNCHANGED <<properties, harnessVars, uiVars, chartVars>>

\* handleClearAllFilters
HandleClearAllFilters ==
    /\ fetches < MaxFetches
    /\ HasActiveFilters(filters)
    /\ filters' = EmptyFilters
    /\ bbox' = NoBbox
    /\ FetchEffect(EmptyFilters, NoBbox)
    /\ GeocodeEffect(EmptyFilters, NoCoords)
    /\ UNCHANGED <<activeTab, propertiesFrom, paretoIdsFrom, geoInflight>>
    /\ UNCHANGED <<properties, harnessVars, uiVars, chartVars>>

\* a fetchProperties or fetchPareto promise settles: then sets the state to the
\* response's items, catch sets it to the empty list; either way it is set
FetchSettles(r) ==
    /\ r \in inflight
    /\ inflight' = inflight \ {r}
    /\ IF r.kind = "properties"
       THEN propertiesFrom' = [k |-> "settled", params |-> r.params] /\ UNCHANGED paretoIdsFrom
       ELSE paretoIdsFrom' = [k |-> "settled", params |-> r.params] /\ UNCHANGED propertiesFrom
    /\ UNCHANGED <<filters, bbox, activeTab, fetches, locationCoords, geocodeTimeoutRef,
                   geoTimers, geoInflight>>
    /\ UNCHANGED <<properties, harnessVars, uiVars, chartVars>>

\* the 500 ms timer runs: geocodeLocation(filters.location) of its render
GeocodeTimeout(t) ==
    /\ t \in geoTimers
    /\ geoTimers' = geoTimers \ {t}
    /\ geoInflight' = geoInflight \cup {[id |-> t.id, query |-> t.location]}
    /\ UNCHANGED <<filters, bbox, activeTab, propertiesFrom, paretoIdsFrom, inflight, fetches,
                   locationCoords, geocodeTimeoutRef>>
    /\ UNCHANGED <<properties, harnessVars, uiVars, chartVars>>

\* a geocodeLocation promise settles: then, or catch
GeocodeSettles(g, ok) ==
    /\ g \in geoInflight
    /\ geoInflight' = geoInflight \ {g}
    /\ locationCoords' = IF ok THEN [k |-> "coords", query |-> g.query] ELSE NoCoords
    /\ UNCHANGED <<filters, bbox, activeTab, propertiesFrom, paretoIdsFrom, inflight, fetches,
                   geocodeTimeoutRef, geoTimers>>
    /\ UNCHANGED <<properties, harnessVars, uiVars, chartVars>>

\* filters, tabs and the two fetches; the geocoding timers stay pending
NextApp ==
    \/ \E input \in FewFilterInputs : SetFilters(input[1], input[2])
    \/ \E b \in BboxInputs : OnBoundsChange(b)
    \/ \E newFilters \in DeltaInputs : OnApplyFilter(newFilters)
    \/ \E tab \in Tabs : SetActiveTab(tab)
    \/ HandleClearAllFilters
    \/ \E r \in inflight : FetchSettles(r)

SpecApp == InitApp /\ [][NextApp]_vars

\* the location input and the geocoding; the fetch responses, which touch none
\* of the geocoding state, stay pending
NextGeocode ==
    \/ \E input \in FilterInputs : SetFilters(input[1], input[2])
    \/ \E b \in BboxInputs : OnBoundsChange(b)
    \/ \E newFilters \in DeltaInputs : OnApplyFilter(newFilters)
    \/ \E tab \in Tabs : SetActiveTab(tab)
    \/ HandleClearAllFilters
    \/ \E t \in geoTimers : GeocodeTimeout(t)
    \/ \E g \in geoInflight, ok \in BOOLEAN : GeocodeSettles(g, ok)

SpecGeocode == InitApp /\ [][NextGeocode]_vars

----------------------------------------------------------------------------
(* Reference notions the claims are stated with *)

\* a real measurement: a number (not null, not NaN) strictly greater than zero
RefValid(v) == v.k = "num" /\ v.n > 0

\* the subsequence, in input order, of the real measurements among raw[1..k]
RECURSIVE RefCleaned(_, _)
RefCleaned(raw, k) ==
    IF k = 0 THEN << >>
    ELSE IF RefValid(raw[k]) THEN Append(RefCleaned(raw, k - 1), raw[k])
         ELSE RefCleaned(raw, k - 1)

\* the accessor results of the call made, and their cleaned series
Raw == [i \in 1..Len(properties) |-> properties[i][call.getValue]]
Cleaned == RefCleaned(Raw, Len(Raw))

RECURSIVE SumCounts(_, _)
SumCounts(h, k) == IF k = 0 THEN 0 ELSE SumCounts(h, k - 1) + h[k].count

RefMin(s) == CHOOSE m \in SeqRange(s) : \A x \in SeqRange(s) : m.n * x.d <= x.n * m.d
RefMax(s) == CHOOSE m \in SeqRange(s) : \A x \in SeqRange(s) : m.n * x.d >= x.n * m.d

Called == call # NoCall
\* the call took the one-bin-per-integer branch / the fixed-bin-count branch
DiscreteCase == Called /\ Cleaned # << >> /\ call.discrete
                   /\ RefMin(Cleaned).d = 1 /\ RefMax(Cleaned).d = 1
ContinuousCase == Called /\ Cleaned # << >> /\ ~DiscreteCase

----------------------------------------------------------------------------
(* C1..C7: calculateHistogram and calculateStats *)

\* C1: for any cleaned series, discrete or continuous, all values equal or
\* not, the bin counts of the returned histogram sum to the length of the
\* cleaned series (no value is dropped).
C1_CountsSumToLength ==
    Called => SumCounts(result.histogram, Len(result.histogram)) = Len(Cleaned)

\* C2: whenever the continuous branch is reached binWidth > 0, so no returned
\* bin has rangeStart = rangeEnd, also when all cleaned values are equal.
C2_NoZeroWidthBin ==
    Called => \A j \in 1..Len(result.histogram) :
                  result.histogram[j].binStart # result.histogram[j].binEnd

\* C3: in the continuous case every cleaned value is counted in bin
\* floor((v - min) / binWidth) clamped to binCount - 1, the index is within
\* 0..binCount-1, values equal to max are counted in the last bin, the first
\* bin starts at min and the last bin ends at max.
C3_IndexInRangeAndCover ==
    ContinuousCase =>
        LET h == result.histogram
            min == RefMin(Cleaned)
            max == RefMax(Cleaned)
            w == Div(Sub(max, min), Num(NumBins))
            idx(k) == BinIndex(Cleaned[k], min, w, NumBins)
        IN  /\ \A k \in 1..Len(Cleaned) :
                   IsNum(idx(k)) /\ idx(k).d = 1 /\ idx(k).n \in 0..(NumBins - 1)
            /\ \A j \in 1..Len(h) :
                   h[j].count = Cardinality({k \in 1..Len(Cleaned) : idx(k) = Num(j - 1)})
            /\ h[Len(h)].count >= Cardinality({k \in 1..Len(Cleaned) : Cleaned[k] = max})
            /\ h[1].binStart = min
            /\ h[Len(h)].binEnd = max

\* the same with the degenerate series (min = max) left out
C3_WhenMinBelowMax ==
    (ContinuousCase /\ RefMin(Cleaned) # RefMax(Cleaned)) => C3_IndexInRangeAndCover

C1_WhenMinBelowMax ==
    (Called /\ Cleaned # << >> /\ (DiscreteCase \/ RefMin(Cleaned) # RefMax(Cleaned)))
        => C1_CountsSumToLength

\* C4: discrete requested and min, max whole: exactly ceil(max) - floor(min) + 1
\* bins, bin j being [i, i+1) for the j-th integer i from floor(min) up, also
\* for integers that were never observed.
C4_DiscreteOneBinPerInteger ==
    DiscreteCase =>
        LET h == result.histogram
            lo == RefMin(Cleaned).n
            hi == RefMax(Cleaned).n
        IN  /\ Len(h) = hi - lo + 1
            /\ \A j \in 1..Len(h) :
                   /\ h[j].binStart = Num(lo + j - 1)
                   /\ h[j].binEnd = Num(lo + j)

\* a discrete histogram with an integer nobody has (an empty bin)
C4_Witness ==
    DiscreteCase /\ \E j \in 1..Len(result.histogram) : result.histogram[j].count = 0

\* C5: the bins of every returned histogram are in ascending order of
\* rangeStart (bins of equal rangeStart count as ordered) and contiguous,
\* bin[i].rangeEnd = bin[i+1].rangeStart; a continuous histogram has exactly
\* binCount bins.
C5_OrderedContiguous ==
    Called =>
        LET h == result.histogram
        IN  /\ \A j \in 1..(Len(h) - 1) :
                   /\ Le(h[j].binStart, h[j + 1].binStart)
                   /\ h[j].binEnd = h[j + 1].binStart
            /\ ContinuousCase => Len(h) = NumBins

\* a continuous histogram over a series with min < max
C5_Witness ==
    /\ ContinuousCase
    /\ RefMin(Cleaned) # RefMax(Cleaned)
    /\ Len(result.histogram) = NumBins
    /\ Lt(result.histogram[1].binStart, result.histogram[2].binStart)

\* C6: an empty cleaned series (no property, or every accessor result null,
\* NaN or not positive) yields histogram = [], min = max = mean = median = 0.
C6_EmptySeriesYieldsZeros ==
    (Called /\ \A i \in 1..Len(Raw) : ~RefValid(Raw[i])) =>
        result = [mean |-> Zero, median |-> Zero, histogram |-> << >>,
                  min |-> Zero, max |-> Zero]

\* a non-empty property list none of whose values is usable
C6_Witness ==
    /\ Called
    /\ Len(Raw) > 1
    /\ \A i \in 1..Len(Raw) : ~RefValid(Raw[i])
    /\ \E i \in 1..Len(Raw) : Raw[i].k = "num"
    /\ \E i \in 1..Len(Raw) : Raw[i].k # "num"

\* the k-th smallest element of a non-empty series of numbers
KthSmallest(s, k) ==
    CHOOSE x \in SeqRange(s) :
        /\ Cardinality({i \in 1..Len(s) : s[i].n * x.d < x.n * s[i].d}) < k
        /\ Cardinality({i \in 1..Len(s) : s[i].n * x.d <= x.n * s[i].d}) >= k

RefMedian(s) ==
    IF Len(s) % 2 = 1 THEN KthSmallest(s, (Len(s) + 1) \div 2)
    ELSE Div(Add(KthSmallest(s, Len(s) \div 2), KthSmallest(s, Len(s) \div 2 + 1)), Num(2))

RECURSIVE RefSum(_, _)
RefSum(s, k) == IF k = 0 THEN Zero ELSE Add(RefSum(s, k - 1), s[k])

\* C7: the cleaned series calculateStats builds is exactly the subsequence, in
\* input order, of the accessor results that are not null, not NaN and > 0;
\* min, max, the outer bin boundaries, mean and median come from it alone.
C7_CleanedSeriesIsValidSubsequence ==
    Called =>
        /\ statsValues = Cleaned
        /\ Cleaned # << >> =>
               LET h == result.histogram
               IN  /\ result.min = RefMin(Cleaned)
                   /\ result.max = RefMax(Cleaned)
                   /\ result.mean = Div(RefSum(Cleaned, Len(Cleaned)), Num(Len(Cleaned)))
                   /\ result.median = RefMedian(Cleaned)
                   /\ h[1].binStart = RefMin(Cleaned)
                   /\ h[Len(h)].binEnd =
                          IF DiscreteCase THEN Add(RefMax(Cleaned), Num(1)) ELSE RefMax(Cleaned)

\* a list with usable values around a zero or a negative one
C7_Witness ==
    /\ Called
    /\ Len(Cleaned) >= 2
    /\ \E i \in 1..Len(Raw) : Raw[i].k = "num" /\ Raw[i].n <= 0
    /\ \E i, j \in 1..Len(Cleaned) : i < j /\ Lt(Cleaned[j], Cleaned[i])

\* the mean of the cleaned series, 0 when it is empty
RefMean(s) == IF s = << >> THEN Zero ELSE Div(RefSum(s, Len(s)), Num(Len(s)))

\* C8: every calculation applies the one cleaning predicate: the bin-click
\* subset holds only properties with a real measurement, and the dataset-wide
\* average area of the price-per-area translation ignores null, zero and
\* negative areas, so it equals the mean of the cleaned area series.
C8_UniformCleaning ==
    /\ selectedBin # NoSelection =>
           \A i \in 1..Len(filteredProperties) :
               RefValid(filteredProperties[i][selectedBin.getValue])
    /\ avgArea # Unset =>
           LET areas == [i \in 1..Len(properties) |-> properties[i].area_m2]
           IN  avgArea = RefMean(RefCleaned(areas, Len(areas)))

\* the bin-click half of C8 alone
C8_ClickSubsetIsCleaned ==
    selectedBin # NoSelection =>
        \A i \in 1..Len(filteredProperties) :
            RefValid(filteredProperties[i][selectedBin.getValue])

\* the bins of the chart that contain v
RefContaining(h, v) ==
    {i \in 1..Len(h) : /\ v.k = "num"
                       /\ h[i].binStart.n * v.d <= v.n * h[i].binStart.d
                       /\ v.n * h[i].binEnd.d < h[i].binEnd.n * v.d}

\* C9: the bin located for the mean or the median is null exactly when the
\* histogram is empty; on a non-empty histogram it is one of its bins.
C9_NullIffEmpty ==
    chartRendered =>
        LET n == Len(chartStats.histogram)
        IN  /\ meanBin = 0 <=> n = 0
            /\ medianBin = 0 <=> n = 0
            /\ meanBin \in 0..n
            /\ medianBin \in 0..n

\* a non-empty histogram none of whose bins contains the mean
C9_Witness ==
    /\ chartRendered
    /\ Len(chartStats.histogram) > 0
    /\ RefContaining(chartStats.histogram, chartStats.mean) = {}
    /\ meanBin # 0

\* the bin the locator is to return on a non-empty histogram
RefLocate(h, v) ==
    IF RefContaining(h, v) # {}
    THEN CHOOSE i \in RefContaining(h, v) : \A j \in RefContaining(h, v) : i <= j
    ELSE IF v.k = "num" /\ v.n * h[Len(h)].binStart.d >= h[Len(h)].binStart.n * v.d
         THEN Len(h)
         ELSE 1

\* C10: on a non-empty histogram the locator returns the first bin with
\* rangeStart <= v < rangeEnd; if there is none, the last bin when
\* v >= its rangeStart and the first bin otherwise.
C10_LocatorCases ==
    (chartRendered /\ Len(chartStats.histogram) > 0) =>
        /\ meanBin = RefLocate(chartStats.histogram, chartStats.mean)
        /\ medianBin = RefLocate(chartStats.histogram, chartStats.median)

\* two bins or more: the mean in a bin other than the first, the median
\* below every bin (first-bin fallback)
C10_Witness ==
    /\ chartRendered
    /\ Len(chartStats.histogram) >= 2
    /\ RefContaining(chartStats.histogram, chartStats.mean) # {}
    /\ meanBin > 1
    /\ RefContaining(chartStats.histogram, chartStats.median) = {}
    /\ chartStats.median.k = "num"
    /\ medianBin = 1

\* two bins or more: nothing contains the mean, which is at or above the last
\* bin's start (last-bin fallback)
C10_WitnessLast ==
    /\ chartRendered
    /\ Len(chartStats.histogram) >= 2
    /\ RefContaining(chartStats.histogram, chartStats.mean) = {}
    /\ meanBin = Len(chartStats.histogram)

----------------------------------------------------------------------------
(* C11: the locator on a shared boundary *)

\* v is the boundary shared by bin i and bin i + 1 of h
RefSharedBoundary(h, i, v) ==
    /\ v.k = "num"
    /\ v = h[i].binEnd
    /\ v = h[i + 1].binStart

\* C11: when v equals the boundary shared by two adjacent bins
\* (v = bin[i].rangeEnd = bin[i+1].rangeStart) the locator returns bin[i+1],
\* the bin that starts at v, never the preceding bin bin[i].
C11_BoundaryGoesToNextBin ==
    chartRendered =>
        \A i \in 1..(Len(chartStats.histogram) - 1) :
            /\ RefSharedBoundary(chartStats.histogram, i, chartStats.mean)
                   => meanBin = i + 1
            /\ RefSharedBoundary(chartStats.histogram, i, chartStats.median)
                   => medianBin = i + 1

\* the same for boundaries whose next bin is not of zero width
C11_WhenNextBinHasWidth ==
    chartRendered =>
        LET h == chartStats.histogram
        IN  \A i \in 1..(Len(h) - 1) :
                h[i + 1].binStart # h[i + 1].binEnd =>
                    /\ RefSharedBoundary(h, i, chartStats.mean) => meanBin = i + 1
                    /\ RefSharedBoundary(h, i, chartStats.median) => medianBin = i + 1

\* on a boundary the located bin starts at v and is never bin i
C11_NeverThePrecedingBin ==
    chartRendered =>
        LET h == chartStats.histogram
        IN  \A i \in 1..(Len(h) - 1) :
                /\ RefSharedBoundary(h, i, chartStats.mean)
                       => meanBin > i /\ h[meanBin].binStart = chartStats.mean
                /\ RefSharedBoundary(h, i, chartStats.median)
                       => medianBin > i /\ h[medianBin].binStart = chartStats.median

----------------------------------------------------------------------------
(* C12, C13: median and mean *)

\* the series of the given whole numbers
NumSeq(ints) == [i \in 1..Len(ints) |-> Num(ints[i])]

\* C12: the median is 0 for an empty cleaned series, else the middle element
\* of the cleaned series in ascending order (odd length) or the average of
\* its two middle elements (even length), whatever the input order; the
\* median of [100, 200, 300] is 200 and of [100, 200, 300, 400] is 250.
C12_MedianOfSortedSeries ==
    /\ Called =>
           result.median = IF Cleaned = << >> THEN Zero ELSE RefMedian(Cleaned)
    /\ \A s \in {<<100, 200, 300>>, <<300, 100, 200>>, <<200, 300, 100>>} :
           CalculateMedian(NumSeq(s)) = Num(200)
    /\ \A s \in {<<100, 200, 300, 400>>, <<400, 100, 300, 200>>, <<300, 400, 200, 100>>} :
           CalculateMedian(NumSeq(s)) = Num(250)

\* three usable values whose middle one in input order is not the median
C12_Witness ==
    /\ Called
    /\ Len(Cleaned) = 3
    /\ Cleaned[2] # RefMedian(Cleaned)
    /\ result.median = RefMedian(Cleaned)

\* two usable values out of order: the median is their average
C12_WitnessEven ==
    /\ Called
    /\ Len(Cleaned) = 2
    /\ Gt(Cleaned[1], Cleaned[2])
    /\ result.median = Div(Add(Cleaned[1], Cleaned[2]), Num(2))

----------------------------------------------------------------------------
(* C14..C18: Apply to Map, bin click, Clear Filter *)

\* f is the whole number floor(x) / ceil(x) of the number x
RefIsFloorOf(f, x) ==
    /\ f.k = "num" /\ x.k = "num" /\ f.d = 1
    /\ f.n * x.d <= x.n
    /\ x.n < (f.n + 1) * x.d
RefIsCeilOf(c, x) ==
    /\ c.k = "num" /\ x.k = "num" /\ c.d = 1
    /\ (c.n - 1) * x.d < x.n
    /\ x.n <= c.n * x.d

RefDirectKeys == {"price", "area", "rooms", "year"}
RefMinKey(k) == "min_" \o k
RefMaxKey(k) == "max_" \o k

\* C14: applying a selected bin of a directly stored attribute (price, area,
\* rooms, year) passes to the callback a delta with exactly that attribute's
\* two keys, min = floor(bin.rangeStart) and max = ceil(bin.rangeEnd), and no
\* key of any other attribute.
C14_DirectAttributeDelta ==
    (applied.called /\ selectedBin.filterKey \in RefDirectKeys) =>
        LET k == selectedBin.filterKey
            f == applied.filters
        IN  /\ DOMAIN f = {RefMinKey(k), RefMaxKey(k)}
            /\ RefIsFloorOf(f[RefMinKey(k)], selectedBin.bin.binStart)
            /\ RefIsCeilOf(f[RefMaxKey(k)], selectedBin.bin.binEnd)

\* an area bin with fractional bounds was applied
C14_Witness ==
    /\ applied.called
    /\ selectedBin.filterKey = "area"
    /\ selectedBin.bin.binStart.d # 1
    /\ selectedBin.bin.binEnd.d # 1
    /\ DOMAIN applied.filters = {"min_area", "max_area"}

RefPositive(x) == x.k = "num" /\ x.n > 0

\* C15: applying a selected price-per-area bin never sets a rooms, area or
\* year key: the delta holds min_price and max_price alone (two whole
\* numbers, the average area being positive), or nothing at all when the
\* dataset-wide average area is not positive; no NaN is ever emitted.
C15_PricePerAreaDeltaIsPriceOrEmpty ==
    (applied.called /\ selectedBin.filterKey = "price_per_m2") =>
        LET f == applied.filters
        IN  \/ /\ RefPositive(avgArea)
               /\ DOMAIN f = {"min_price", "max_price"}
               /\ f.min_price.k = "num" /\ f.min_price.d = 1
               /\ f.max_price.k = "num" /\ f.max_price.d = 1
            \/ /\ ~RefPositive(avgArea)
               /\ DOMAIN f = {}

\* a price-per-area bin was applied on a list whose average area is zero
C15_Witness ==
    /\ applied.called
    /\ selectedBin.filterKey = "price_per_m2"
    /\ avgArea = Zero
    /\ DOMAIN applied.filters = {}

\* the average of area_m2 over the whole list, a missing, NaN or zero area
\* adding nothing to the sum
RefAreaOrZero(p) == IF p.area_m2.k = "num" THEN p.area_m2 ELSE Zero
RefAvgAreaOfList(props) ==
    LET areas == [i \in 1..Len(props) |-> RefAreaOrZero(props[i])]
    IN  Div(RefSum(areas, Len(areas)), Num(Len(props)))

\* C16: for a price-per-area bin and a positive average area A over the full
\* property list given to Statistics (not over the bin's members) the delta
\* is min_price = floor(rangeStart * A * 0.8), max_price = ceil(rangeEnd * A * 1.2).
C16_PricePerAreaRange ==
    (/\ applied.called
     /\ selectedBin.filterKey = "price_per_m2"
     /\ RefPositive(RefAvgAreaOfList(properties))) =>
        LET A == RefAvgAreaOfList(properties)
            lo == selectedBin.bin.binStart
            hi == selectedBin.bin.binEnd
        IN  /\ avgArea = A
            /\ DOMAIN applied.filters = {"min_price", "max_price"}
            /\ applied.filters.min_price = Num((lo.n * A.n * 4) \div (lo.d * A.d * 5))
            /\ applied.filters.max_price = Num(-((-(hi.n * A.n * 6)) \div (hi.d * A.d * 5)))

\* a price-per-area bin that holds only a part of the list was applied, and
\* the average area of its members is not the average area of the list
C16_Witness ==
    /\ applied.called
    /\ selectedBin.filterKey = "price_per_m2"
    /\ RefPositive(avgArea)
    /\ filteredProperties # << >>
    /\ Len(filteredProperties) < Len(properties)
    /\ RefAvgAreaOfList(filteredProperties) # avgArea
    /\ Lt(applied.filters.min_price, applied.filters.max_price)

\* the rooms histogram in use is the one-bin-per-integer histogram
RefRoomsDiscrete ==
    LET rooms == [i \in 1..Len(properties) |-> properties[i].rooms]
        cleaned == RefCleaned(rooms, Len(rooms))
    IN  cleaned # << >> /\ RefMin(cleaned).d = 1 /\ RefMax(cleaned).d = 1

\* C17: a click on bin i of the discrete rooms histogram (range [i, i+1))
\* selects exactly the properties whose rooms value equals i.
C17_DiscreteClickSelectsEqualRooms ==
    (selectedBin # NoSelection /\ selectedBin.filterKey = "rooms" /\ RefRoomsDiscrete) =>
        filteredProperties =
            SelectSeq(properties, LAMBDA p : p.rooms = selectedBin.bin.binStart)

\* the same when every room count of the list is a whole number
C17_WhenRoomsAreWhole ==
    (\A i \in 1..Len(properties) :
         properties[i].rooms.k = "num" => properties[i].rooms.d = 1)
        => C17_DiscreteClickSelectsEqualRooms

\* the input-ordered subset of props whose valid value lies in [binStart, binEnd)
RefInBin(v, bin) ==
    /\ RefValid(v)
    /\ bin.binStart.n * v.d <= v.n * bin.binStart.d
    /\ v.n * bin.binEnd.d < bin.binEnd.n * v.d
RefSubset(props, getValue, bin) ==
    SelectSeq(props, LAMBDA p : RefInBin(p[getValue], bin))

\* C18: the selection is replaced or cleared wholesale: with a bin selected,
\* selectedBin is a bin of the clicked chart and filteredProperties is exactly
\* the input-ordered subset of properties whose valid value v satisfies
\* rangeStart <= v < rangeEnd; with no bin selected (initially and after
\* Clear Filter) filteredProperties is empty.
C18_SelectionReplacedWholesale ==
    /\ selectedBin = NoSelection => filteredProperties = << >>
    /\ selectedBin # NoSelection =>
           /\ \E j \in 1..Len(stats[selectedBin.filterKey].histogram) :
                  stats[selectedBin.filterKey].histogram[j] = selectedBin.bin
           /\ \E c \in StatsCalls :
                  c.filterKey = selectedBin.filterKey /\ c.getValue = selectedBin.getValue
           /\ filteredProperties =
                  RefSubset(properties, selectedBin.getValue, selectedBin.bin)

\* C18, the steps: a click (it starts a timer) leaves a selection whose subset
\* is that of the new bin, whatever was selected before; a step that ends
\* with no bin selected ends with an empty subset.
C18_StepsReplaceWholesale ==
    [][/\ timers' > timers =>
              /\ selectedBin' # NoSelection
              /\ filteredProperties' =
                     RefSubset(properties, selectedBin'.getValue, selectedBin'.bin)
       /\ (selectedBin # NoSelection /\ selectedBin' = NoSelection) =>
              filteredProperties' = << >>]_vars

\* a bin holding a part of the list is selected, its subset on screen
C18_Witness ==
    /\ selectedBin # NoSelection
    /\ filteredProperties # << >>
    /\ Len(filteredProperties) < Len(properties)
    /\ scrolled

\* the selection was cleared: nothing selected while a scroll timer of an
\* earlier click is still pending
C18_WitnessCleared ==
    /\ selectedBin = NoSelection
    /\ filteredProperties = << >>
    /\ timers > 0

----------------------------------------------------------------------------
(* C19, C20: a superseded property list, memoized statistics *)

\* calculateStats of each attribute over the list props
RefStatsOf(props) ==
    [f \in FilterKeys |->
        LET c == CHOOSE x \in StatsCalls : x.filterKey = f
        IN  CalculateStats(props, c.getValue, c.discrete, c.isPrice)]

\* C19: when the property list is superseded by a new list every output
\* computed from the previous list is discarded: the per-attribute stats, the
\* selected bin and the filtered subset all derive from the current list (no
\* property of the subset is missing from the current list, and the selected
\* bin is a bin of the current histogram).
C19_OutputsDeriveFromCurrentList ==
    /\ stats = RefStatsOf(properties)
    /\ \A i \in 1..Len(filteredProperties) :
           \E j \in 1..Len(properties) : properties[j] = filteredProperties[i]
    /\ selectedBin # NoSelection =>
           \E j \in 1..Len(stats[selectedBin.filterKey].histogram) :
               stats[selectedBin.filterKey].histogram[j] = selectedBin.bin

\* the stats alone always derive from the current list
C19_StatsDeriveFromCurrentList == stats = RefStatsOf(properties)

\* C20: the stats are memoized on the identity of the property list: over
\* re-renders, bin clicks and list replacements a step recomputes them
\* exactly when it changes the list reference, never on a render with the
\* same list, and the stats in use are calculateStats of the current list.
C20_MemoizedOnListIdentity ==
    [][/\ recomputed' <=> (listRef' # listRef)
       /\ stats' = RefStatsOf(properties')
       /\ memoRef' = listRef']_vars

\* the list was replaced by an array with the same elements: the stats were
\* recomputed, a bin selected before is still selected
C20_Witness ==
    /\ listRef > 0
    /\ recomputed
    /\ properties # << >>
    /\ selectedBin # NoSelection
    /\ filteredProperties = RefSubset(properties, selectedBin.getValue, selectedBin.bin)

\* a render with the same list after a replacement: nothing was recomputed
C20_WitnessSameList ==
    /\ listRef > 0
    /\ ~recomputed
    /\ selectedBin # NoSelection
    /\ timers > 0

----------------------------------------------------------------------------
(* C21: a throwing calculateStats call *)

\* C21: a fault while computing one attribute's statistics is caught at that
\* attribute's boundary, reported, and replaced by the default
\* {mean: 0, median: 0, histogram: [], min: 0, max: 0} for that attribute
\* only; the other attributes' statistics are those of a fault-free run.
C21_FaultIsolatedPerAttribute ==
    memoRef = listRef =>
        \A f \in FilterKeys :
            /\ f \in thrown =>
                   /\ stats[f] = [mean |-> Zero, median |-> Zero, histogram |-> << >>,
                                  min |-> Zero, max |-> Zero]
                   /\ f \in errorLog
            /\ f \notin thrown =>
                   /\ stats[f] = RefStatsOf(properties)[f]
                   /\ f \notin errorLog

\* one call threw on a list that has data for it, another call did not
\* throw and has a histogram
C21_Witness ==
    /\ memoRef = listRef
    /\ \E f \in thrown : RefStatsOf(properties)[f].histogram # << >>
    /\ \E f \in FilterKeys \ thrown : stats[f].histogram # << >>
    /\ errorLog = thrown

----------------------------------------------------------------------------
(* C22, C23: the apply callback and the scroll timer *)

\* the step is a bin click (it starts a timer) / a Clear Filter
RefClickStep == timers' > timers
RefClearStep == selectedBin # NoSelection /\ selectedBin' = NoSelection

\* C22: the apply-filter callback is invoked only by the explicit Apply action
\* while a bin is selected (the step leaves the selection as it is): a bin
\* click or a Clear Filter never invokes it, and without a callback no delta
\* is ever produced, bin clicks only updating the displayed selection.
C22_ApplyOnlyOnExplicitAction ==
    [][/\ applied'.called =>
              /\ onApplyFilter
              /\ selectedBin # NoSelection
              /\ UNCHANGED <<selectedBin, filteredProperties, timers, properties>>
       /\ (RefClickStep \/ RefClearStep) => ~applied'.called
       /\ ~onApplyFilter => ~applied'.called]_vars

\* Apply to Map was pressed on a selected bin: the callback got a delta
C22_Witness ==
    /\ applied.called
    /\ onApplyFilter
    /\ selectedBin # NoSelection
    /\ DOMAIN applied.filters # {}

\* no callback given: a bin is selected and shown, nothing else happened
C22_WitnessDisplayOnly ==
    /\ ~onApplyFilter
    /\ selectedBin # NoSelection
    /\ filteredProperties # << >>
    /\ ~applied.called

\* C23: a scroll-into-view happens only in a timer step, strictly after the
\* click that scheduled it committed its selection, and only if the results
\* panel exists at that moment: if the selection was cleared before the
\* callback fires, the callback does nothing.
C23_ScrollAfterCommitIfPanelExists ==
    [][/\ scrolled' =>
              /\ timers > 0 /\ timers' = timers - 1
              /\ selectedBin # NoSelection
              /\ properties # << >>
              /\ UNCHANGED <<selectedBin, filteredProperties, properties>>
       /\ RefClickStep => ~scrolled'
       /\ (timers' < timers /\ selectedBin = NoSelection) =>
              /\ ~scrolled'
              /\ UNCHANGED <<selectedBin, filteredProperties, properties, stats>>]_vars

\* the timer of a click fired and scrolled to the panel of the bin selected
C23_Witness ==
    /\ scrolled
    /\ timers = 0
    /\ selectedBin # NoSelection

----------------------------------------------------------------------------
(* C24, C25: repeated calls, the isCurrency flag *)

RefThousands(x) == ToString((2 * x.n + 1000 * x.d) \div (2000 * x.d))

\* C25: the isCurrency flag changes only bin labels: for the same values, bin
\* count and discrete flag the histograms with the flag set and not set have
\* the same rangeStart, rangeEnd and count in every bin; with the flag set a
\* continuous bin's label is round(rangeStart/1000) + "k-" +
\* round(rangeEnd/1000) + "k".  Prices [100000, 150000, 210000] with 15 bins
\* give a first label starting with "100k" and bins covering [100000, 210000].
C25_CurrencyFlagOnlyLabels ==
    /\ Called =>
           \A with \in {CalculateHistogram(statsValues, NumBins, call.discrete, TRUE).histogram},
              without \in {CalculateHistogram(statsValues, NumBins, call.discrete, FALSE).histogram} :
               /\ result.histogram = IF call.isPrice THEN with ELSE without
               /\ Len(with) = Len(without)
               /\ \A j \in 1..Len(with) :
                      /\ with[j].binStart = without[j].binStart
                      /\ with[j].binEnd = without[j].binEnd
                      /\ with[j].count = without[j].count
               /\ ContinuousCase =>
                      \A j \in 1..Len(with) :
                          with[j].bin = RefThousands(with[j].binStart) \o "k-"
                                           \o RefThousands(with[j].binEnd) \o "k"
    /\ (Called /\ call.isPrice /\ statsValues = NumSeq(<<100000, 150000, 210000>>)) =>
           /\ Len(result.histogram) = 15
           /\ result.histogram[1].bin = "100k-107k"
           /\ result.histogram[1].binStart = Num(100000)
           /\ result.histogram[15].binEnd = Num(210000)

\* the price call on the prices [100000, 150000, 210000]: labels in
\* thousands that differ from the plain labels of the same bins
C25_Witness ==
    /\ Called
    /\ call.isPrice
    /\ ContinuousCase
    /\ Cleaned = NumSeq(<<100000, 150000, 210000>>)
    /\ result.histogram[1].bin = RefThousands(RefMin(Cleaned)) \o "k-"
                                     \o RefThousands(result.histogram[1].binEnd) \o "k"
    /\ result.histogram[1].bin #
           CalculateHistogram(statsValues, NumBins, FALSE, FALSE).histogram[1].bin

----------------------------------------------------------------------------
(* C26, C27: bin counts against click subsets, located bins of real stats *)

\* the bins of h whose click selects a property with the value v
RefSelectingBins(h, v) == {j \in 1..Len(h) : RefInBin(v, h[j])}

\* C26: the number of properties a click on a bin selects (valid values v
\* with rangeStart <= v < rangeEnd) equals the bin's count; so every property
\* with a valid value is selected by the click on exactly one bin.
C26_ClickCountEqualsBinCount ==
    selectedBin # NoSelection =>
        /\ Len(filteredProperties) = selectedBin.bin.count
        /\ \A i \in 1..Len(properties) :
               RefValid(properties[i][selectedBin.getValue]) =>
                   Cardinality(RefSelectingBins(stats[selectedBin.filterKey].histogram,
                                                properties[i][selectedBin.getValue])) = 1

\* the count half of C26, for every bin but the last one of a histogram
\* whose values are whole or which is not discrete, and min < max
C26_ExceptLastBin ==
    (/\ selectedBin # NoSelection
     /\ selectedBin.bin # stats[selectedBin.filterKey].histogram[
                               Len(stats[selectedBin.filterKey].histogram)]
     /\ stats[selectedBin.filterKey].min # stats[selectedBin.filterKey].max
     /\ \A i \in 1..Len(properties) :
            properties[i].rooms.k = "num" => properties[i].rooms.d = 1)
        => Len(filteredProperties) = selectedBin.bin.count

----------------------------------------------------------------------------
(* App: the filter delta, the fetch responses, the geocoding debounce *)

\* C28: when App receives a filter delta from Statistics, every filter key that
\* is not in the delta keeps its previous value (a missing key stays missing),
\* every key of the delta takes the delta's value, and the active tab becomes
\* 'map'; an empty delta leaves the filters as they were.
C28_DeltaMergedIntoFilters ==
    [][\A delta \in DeltaInputs :
          OnApplyFilter(delta) =>
              /\ DOMAIN filters' = DOMAIN filters \cup DOMAIN delta
              /\ \A key \in DOMAIN filters \ DOMAIN delta : filters'[key] = filters[key]
              /\ \A key \in DOMAIN delta : filters'[key] = delta[key]
              /\ activeTab' = "map"
              /\ DOMAIN delta = {} => filters' = filters]_vars

\* a price delta was merged into filters that held a location
C28_Witness ==
    /\ activeTab = "map"
    /\ DOMAIN filters = {"location", "min_price", "max_price"}
    /\ filters.location = Str(<<"a">>)
    /\ filters.min_price = Num(2)
    /\ filters.max_price = Num(3)

\* C29: once no fetchProperties or fetchPareto request is in flight, properties
\* and paretoIds hold the result of the request sent for the current params: a
\* late response to an older request never replaces a newer one.
C29_LatestResponseWins ==
    inflight = {} =>
        /\ propertiesFrom.params = Params(filters, bbox)
        /\ paretoIdsFrom.params = Params(filters, bbox)

\* C30: at most one geocoding timer is pending; a step that changes
\* filters.location leaves none of the timers that were pending; geocodeLocation
\* is called only by a pending timer, with the non-blank location the filters
\* still hold; a step that makes the location blank sets locationCoords to null
\* and sends no request.
C30_GeocodingDebounced ==
    /\ Cardinality(geoTimers) <= 1
    /\ [][/\ Cardinality(geoTimers') <= 1
          /\ LocationOf(filters') # LocationOf(filters) => geoTimers \cap geoTimers' = {}
          /\ \A g \in geoInflight' \ geoInflight :
                 /\ HasLocation(filters)
                 /\ g.query = LocationOf(filters).n
                 /\ \E t \in geoTimers : t.location = g.query /\ t \notin geoTimers'
          /\ (LocationOf(filters') # LocationOf(filters) /\ ~HasLocation(filters')) =>
                 /\ locationCoords' = NoCoords
                 /\ geoInflight' = geoInflight
                 /\ geoTimers' = {}]_vars

\* the timer of the first location ran and its request is in flight; the location
\* was then changed and the timer of the second location is the one pending
C30_Witness ==
    /\ geoInflight = {[id |-> 2, query |-> <<"a">>]}
    /\ geoTimers = {[id |-> 3, location |-> <<"b", " ">>]}
    /\ geocodeTimeoutRef = 3

====
